---- MODULE Spec2Model ----
(***************************************************************************)
(* bemio/data_structures/bem.py: HydrodynamicData.                         *)
(*                                                                         *)
(* Spec    : calc_ss_radiation (the per-(i,j) order search and the store   *)
(*           of its results) and calc_ss_excitation.                       *)
(* SpecIrf : the frequency-grid normalisation and interpolation of         *)
(*           calc_irf_radiation and calc_irf_excitation.                   *)
(* SpecPar : calc_ss_radiation with the bodies of its (i,j) loops run as    *)
(*           interleaved tasks, one per pair.                              *)
(*                                                                         *)
(* Floating-point linear algebra (hankel, svd, inv, expm, norm) is not     *)
(* computed: one pass of the while-loop body yields either a LinAlgError   *)
(* or an R2 value drawn from R2Values, and the matrices it produces are    *)
(* represented by Val(i,j,ss), a nonzero number naming the pair and the    *)
(* candidate order that produced them.  The shapes of the matrices, the    *)
(* control flow, the slicing and the stores are modelled as written.       *)
(***************************************************************************)
EXTENDS Integers, Sequences, FiniteSets, TLC

\* ------------------------------------------------------------------ bounds
MaxPairs   == 2      \* am.inf has at most MaxPairs (i,j) entries
MaxOrder   == 3      \* max_order is drawn from 1..MaxOrder
MaxNumFreq == 4      \* np.size(rd.irf.t) is drawn from 2..MaxNumFreq
MaxGridLen == 3      \* self.w has 2..MaxGridLen frequencies
MaxW       == 2      \* the frequencies of self.w are drawn from 0..MaxW
MaxNw      == 3      \* n_w is drawn from 2..MaxNw

Shapes     == {s \in (1..MaxPairs) \X (1..MaxPairs) : s[1] * s[2] <= MaxPairs}
R2Values   == {0, 1, 2}      \* the values R2T can take (scaled)
Thresholds == {1, 2}         \* r2_thresh
CoefValues == {0, 1}         \* the values of a frequency-domain coefficient

\* --------------------------------------------------------------- variables
VARIABLES
    shape,      \* self.am.inf.shape = <<shape[0], shape[1]>>
    numFreq,    \* np.size(self.rd.irf.t)
    K,          \* self.rd.irf.K[i,j,:]
    w,          \* self.w
    rd_all,     \* self.rd.all[i,j,:]
    ex_re,      \* self.ex.re[i,j,:]
    ex_im,      \* self.ex.im[i,j,:]
    rd_im,      \* self.rd.im[i,j,:], an attribute nothing in this file sets
    rd_irf_w, rd_interp,                        \* calc_irf_radiation
    ex_irf_w, ex_re_interp, ex_im_interp,       \* calc_irf_excitation
    A, B, C, D, irk_bss, rad_conv, it, r2t,     \* self.rd.ss.*
    pc,         \* position of the running call; "idle" when none runs
    result,     \* how the last call ended
    max_order, r2_thresh,                       \* arguments of the call
    i, j, ss, r2bt, status, R2T, ac, bc, cc, dc, k_ss_est, count,  \* locals
    task,       \* SpecPar: per pair, the locals of the pair's loop body
    tried,      \* history: per pair, the <<order, R2T>> evaluated so far
    done        \* history: the pairs whose loop body has run to its end

ssStore == <<A, B, C, D, irk_bss, rad_conv, it, r2t>>
inputs  == <<shape, numFreq, K, w, rd_all, ex_re, ex_im, rd_im>>
irfStore == <<rd_irf_w, rd_interp, ex_irf_w, ex_re_interp, ex_im_interp>>
args    == <<max_order, r2_thresh>>
locals  == <<i, j, ss, r2bt, status, R2T, ac, bc, cc, dc, k_ss_est, count>>
hist    == <<tried, done>>
vars    == <<inputs, irfStore, ssStore, pc, result, args, locals, task, hist>>

\* ----------------------------------------------------------------- helpers
Pairs(s) == (0..(s[1] - 1)) \X (0..(s[2] - 1))

\* The kernels a pair can have: all zero, constant non-zero, not constant.
KernelSlices(n) ==
    { [k \in 0..(n - 1) |-> 0],
      [k \in 0..(n - 1) |-> 1],
      [k \in 0..(n - 1) |-> IF k = 0 THEN 1 ELSE 0] }

RECURSIVE SumTo(_, _)
SumTo(f, n) == IF n = 0 THEN 0 ELSE f[n - 1] + SumTo(f, n - 1)

\* np.linalg.norm(K[i,j,:] - K.mean(axis=2)[i,j]), as n^2 times its square
\* (exact arithmetic: zero exactly when every sample equals the mean).
Norm2Centered(y, n) ==
    LET s == SumTo(y, n)
        d == [k \in 0..(n - 1) |-> (n * y[k] - s) * (n * y[k] - s)]
    IN  SumTo(d, n)

\* The number standing for what the while-loop body computes for pair
\* (pi,pj) at candidate order o: never zero, and it names pair and order.
Val(pi, pj, o) == (pi * MaxPairs + pj) * 100 + o

Unbound  == -1                       \* a local not assigned yet
NoMatrix == [x \in {} |-> 0]         \* a matrix local not assigned yet

\* np.zeros([rows, cols])
Zeros(rows, cols) == [x \in (0..(rows - 1)) \X (0..(cols - 1)) |-> 0]
\* a rows x cols matrix whose entries all come from one computation
Filled(rows, cols, v) == [x \in (0..(rows - 1)) \X (0..(cols - 1)) |-> v]

Shape0 == shape[1]                   \* self.am.inf.shape[0]
Shape1 == shape[2]                   \* self.am.inf.shape[1]

\* ss = 2  #Initial state space order
InitialOrder == 2
\* (mutant) every pair enters the order search
NonDegenerateAlways(r) == TRUE
\* if r2bt != 0.0:
NonDegenerate(r) == r # 0
\* (mutant) the threshold must be exceeded
MeetsThresholdStrict(r, t) == r > t
\* if R2T >= r2_thresh:
MeetsThreshold(r, t) == r >= t
\* if ss == max_order:
AtOrderLimit(s, m) == s = m
\* (mutant) the order is not increased
NextOrderStuck(s) == s
\* ss=ss+1
NextOrder(s) == s + 1

\* (mutant) the whole slot is overwritten
WriteBlockAll(slot, m) == [x \in DOMAIN slot |-> m[<<0, 0>>]]
\* container[i,j,0:m.shape[0],0:m.shape[1]] = m for a container whose pair
\* slot has the shape of `slot`: the entries of the leading block take m's
\* values, the others keep theirs.
WriteBlock(slot, m) == [x \in DOMAIN slot |-> IF x \in DOMAIN m THEN m[x] ELSE slot[x]]
\* numpy cannot assign m into the slice when m does not fit in the slot
\* (the slice is clipped to the slot, and m is not broadcastable to it).
Fits(slot, m) == DOMAIN m \subseteq DOMAIN slot

\* the next (i,j) of "for i in xrange(shape[0]): for j in xrange(shape[1])"
NextI == IF j + 1 < Shape1 THEN i ELSE i + 1
NextJ == IF j + 1 < Shape1 THEN j + 1 ELSE 0

\* The locals of a call that is not running.
NoLocals ==
    /\ i = 0 /\ j = 0 /\ ss = Unbound /\ r2bt = 0 /\ status = Unbound
    /\ R2T = Unbound /\ ac = NoMatrix /\ bc = NoMatrix /\ cc = NoMatrix
    /\ dc = Unbound /\ k_ss_est = NoMatrix /\ count = 0

DropLocals ==
    /\ i' = 0 /\ j' = 0 /\ ss' = Unbound /\ r2bt' = 0 /\ status' = Unbound
    /\ R2T' = Unbound /\ ac' = NoMatrix /\ bc' = NoMatrix /\ cc' = NoMatrix
    /\ dc' = Unbound /\ k_ss_est' = NoMatrix /\ count' = 0

\* An exception leaves the call: the locals are gone, the store stays as it is.
Raise(e) ==
    /\ pc' = "idle"
    /\ result' = e
    /\ DropLocals

\* ------------------------------------------------- grids and interpolation
Size(a) == Cardinality(DOMAIN a)
\* np.flipud of a one-dimensional array
Flipud(a) == [k \in DOMAIN a |-> a[Size(a) - 1 - k]]
\* np.min, np.max
ArrayMin(a) == CHOOSE v \in {a[k] : k \in DOMAIN a} : \A k \in DOMAIN a : v <= a[k]
ArrayMax(a) == CHOOSE v \in {a[k] : k \in DOMAIN a} : \A k \in DOMAIN a : v >= a[k]

\* Rational numbers <<numerator, denominator>>, denominator > 0, in lowest terms.
Abs(x) == IF x < 0 THEN -x ELSE x
RECURSIVE Gcd(_, _)
Gcd(a, b) == IF b = 0 THEN a ELSE Gcd(b, a % b)
Frac(n, d) ==
    LET g == Gcd(Abs(n), d) IN <<n \div g, d \div g>>

\* np.linspace(lo, hi, n), n >= 2
Linspace(lo, hi, n) ==
    [k \in 0..(n - 1) |-> Frac(lo * (n - 1) + k * (hi - lo), n - 1)]

\* interpolate.interp1d(x=x, y=y)(xn) for an ascending x and xn within it:
\* hi = clip(searchsorted(x, xn), 1, len(x)-1), lo = hi - 1,
\* y[lo] + (y[hi]-y[lo]) / (x[hi]-x[lo]) * (xn - x[lo])
Interp1d(x, y, xn) ==
    LET pos == Cardinality({k \in DOMAIN x : x[k] * xn[2] < xn[1]})
        hi  == IF pos < 1 THEN 1
               ELSE IF pos > Size(x) - 1 THEN Size(x) - 1 ELSE pos
        lo  == hi - 1
        dx  == x[hi] - x[lo]
    IN  Frac(y[lo] * xn[2] * dx + (y[hi] - y[lo]) * (xn[1] - x[lo] * xn[2]),
             xn[2] * dx)

\* Lines 187-196 and 124-133: the grid handed to interp1d.
Flip(w_) == w_[0] > w_[1]
WTmp(w_) == IF Flip(w_) THEN Flipud(w_) ELSE w_

\* Lines 198-210: rd_interp[i,j,:] of calc_irf_radiation.
RdInterp(w_, rd_all_, irf_w) ==
    [p \in DOMAIN rd_all_ |->
        LET rdTmp == IF Flip(w_) THEN Flipud(rd_all_[p]) ELSE rd_all_[p]
        IN  [k \in DOMAIN irf_w |-> Interp1d(WTmp(w_), rdTmp, irf_w[k])]]

\* Lines 135-152: ex_re_interp[i,j,:] of calc_irf_excitation.
ExReInterp(w_, ex_re_, irf_w) ==
    [p \in DOMAIN ex_re_ |->
        LET ex_tmp_re == IF Flip(w_) THEN Flipud(ex_re_[p]) ELSE ex_re_[p]
        IN  [k \in DOMAIN irf_w |-> Interp1d(WTmp(w_), ex_tmp_re, irf_w[k])]]

\* Lines 135-153: ex_im_interp[i,j,:] of calc_irf_excitation.
ExImInterp(w_, ex_im_, rd_im_, irf_w) ==
    [p \in DOMAIN ex_im_ |->
        LET ex_tmp_im == IF Flip(w_) THEN Flipud(rd_im_[p]) ELSE ex_im_[p]
        IN  [k \in DOMAIN irf_w |-> Interp1d(WTmp(w_), ex_tmp_im, irf_w[k])]]

NoIrfResults ==
    /\ rd_irf_w = NoMatrix /\ rd_interp = NoMatrix
    /\ ex_irf_w = NoMatrix /\ ex_re_interp = NoMatrix /\ ex_im_interp = NoMatrix

\* -------------------------------------------------------------------- Init
Init ==
    /\ shape \in Shapes
    /\ numFreq \in 2..MaxNumFreq
    /\ K \in [Pairs(shape) -> KernelSlices(numFreq)]
    /\ w = NoMatrix /\ rd_all = NoMatrix /\ ex_re = NoMatrix /\ ex_im = NoMatrix
    /\ rd_im = NoMatrix
    /\ NoIrfResults
    /\ A = NoMatrix /\ B = NoMatrix /\ C = NoMatrix /\ D = NoMatrix
    /\ irk_bss = NoMatrix /\ rad_conv = NoMatrix /\ it = NoMatrix /\ r2t = NoMatrix
    /\ pc = "idle"
    /\ result = "none"
    /\ max_order = 0 /\ r2_thresh = 0
    /\ NoLocals
    /\ task = NoMatrix
    /\ tried = NoMatrix
    /\ done = {}

\* ------------------------------------------------------ calc_ss_radiation
\* Lines 253-268: dt, the zeroed result arrays, the start of the loops.
\* (The result arrays have 6 rows; the rows i < shape[0] <= 6 are modelled.)
calc_ss_radiation_begin ==
    /\ pc = "idle"
    /\ \E mo \in 1..MaxOrder, th \in Thresholds :
        /\ max_order' = mo
        /\ r2_thresh' = th
        /\ tried' = [p \in Pairs(shape) |-> << >>]
        /\ done' = {}
        /\ IF numFreq < 3
           THEN \* dt = self.rd.irf.t[2]-self.rd.irf.t[1]
                /\ Raise("IndexError")
                /\ UNCHANGED <<inputs, task, irfStore, ssStore>>
           ELSE /\ k_ss_est' = [k \in 0..(numFreq - 1) |-> 0]
                /\ A' = [p \in Pairs(shape) |-> Zeros(mo, mo)]
                /\ B' = [p \in Pairs(shape) |-> Zeros(mo, 1)]
                /\ C' = [p \in Pairs(shape) |-> Zeros(1, mo)]
                /\ D' = [p \in Pairs(shape) |-> 0]
                /\ irk_bss' = [p \in Pairs(shape) |-> [k \in 0..(numFreq - 1) |-> 0]]
                /\ rad_conv' = [p \in Pairs(shape) |-> 0]
                /\ it' = [p \in Pairs(shape) |-> 0]
                /\ r2t' = [p \in Pairs(shape) |-> 0]
                /\ count' = 0
                /\ i' = 0 /\ j' = 0
                /\ pc' = "for"
                /\ result' = "running"
                /\ UNCHANGED <<inputs, task, irfStore, ss, r2bt, status, R2T, ac, bc, cc, dc>>

\* Lines 271-277 and 337-338: the reference norm of pair (i,j); a pair with a
\* zero norm is skipped, the others enter the order search.
for_body ==
    /\ pc = "for"
    /\ i < Shape0
    /\ r2bt' = Norm2Centered(K[<<i, j>>], numFreq)
    /\ ss' = InitialOrder
    /\ IF NonDegenerate(r2bt')
       THEN /\ pc' = "while"
            /\ UNCHANGED <<i, j, count, done>>
       ELSE /\ pc' = "for"
            /\ count' = count + 1
            /\ i' = NextI /\ j' = NextJ
            /\ done' = done \cup {<<i, j>>}
    /\ UNCHANGED <<inputs, task, irfStore, ssStore, result, args, status, R2T, ac, bc, cc, dc,
                   k_ss_est, tried>>

\* Lines 281-326: one pass of the while-loop body at candidate order ss.
while_body ==
    /\ pc = "while"
    /\ \/ \* svh[0:ss].reshape(ss,1): svh has numFreq-1 entries
          /\ ss > numFreq - 1
          /\ Raise("ValueError")
          /\ UNCHANGED <<inputs, task, irfStore, ssStore, args, hist>>
       \/ \* np.linalg.svd does not converge, or np.linalg.inv meets a
          \* singular matrix
          /\ ss <= numFreq - 1
          /\ Raise("LinAlgError")
          /\ UNCHANGED <<inputs, task, irfStore, ssStore, args, hist>>
       \/ /\ ss <= numFreq - 1
          /\ \E r \in R2Values :
              /\ ac' = Filled(ss, ss, Val(i, j, ss))
              /\ bc' = Filled(ss, 1, Val(i, j, ss))
              /\ cc' = Filled(1, ss, Val(i, j, ss))
              /\ dc' = Val(i, j, ss)
              /\ k_ss_est' = [k \in 0..(numFreq - 1) |-> Val(i, j, ss)]
              /\ R2T' = r
              /\ tried' = [tried EXCEPT ![<<i, j>>] = Append(@, <<ss, r>>)]
              /\ IF MeetsThreshold(r, r2_thresh)
                 THEN /\ status' = 1
                      /\ pc' = "store"
                      /\ ss' = ss
                 ELSE IF AtOrderLimit(ss, max_order)
                 THEN /\ status' = 2
                      /\ pc' = "store"
                      /\ ss' = ss
                 ELSE /\ ss' = NextOrder(ss)
                      /\ pc' = "while"
                      /\ UNCHANGED status
          /\ UNCHANGED <<inputs, task, irfStore, ssStore, result, args, i, j, r2bt, count, done>>

\* Lines 328-338: the results of the search are written to the pair's slots.
store_results ==
    /\ pc = "store"
    /\ LET p == <<i, j>> IN
       IF ~Fits(A[p], ac)
       THEN \* line 328: ac does not fit in the max_order x max_order slot
            /\ Raise("ValueError")
            /\ UNCHANGED <<inputs, task, irfStore, ssStore, args, hist>>
       ELSE /\ A' = [A EXCEPT ![p] = WriteBlock(@, ac)]
            /\ B' = [B EXCEPT ![p] = WriteBlock(@, bc)]
            /\ C' = [C EXCEPT ![p] = WriteBlock(@, cc)]
            /\ D' = [D EXCEPT ![p] = dc]
            /\ irk_bss' = [irk_bss EXCEPT ![p] = k_ss_est]
            /\ rad_conv' = [rad_conv EXCEPT ![p] = status]
            /\ r2t' = [r2t EXCEPT ![p] = R2T]
            /\ it' = [it EXCEPT ![p] = ss]
            /\ count' = count + 1
            /\ i' = NextI /\ j' = NextJ
            /\ pc' = "for"
            /\ done' = done \cup {p}
            /\ UNCHANGED <<inputs, task, irfStore, result, args, ss, r2bt, status, R2T, ac, bc,
                           cc, dc, k_ss_est, tried>>

\* Line 340: both loops are exhausted, the call returns.
calc_ss_radiation_return ==
    /\ pc = "for"
    /\ i = Shape0
    /\ pc' = "idle"
    /\ result' = "returned"
    /\ DropLocals
    /\ UNCHANGED <<inputs, task, irfStore, ssStore, args, hist>>

\* ----------------------------------------------------- calc_ss_excitation
\* (mutant) the state-space results are cleared before the error is raised
calc_ss_excitation_partial ==
    /\ pc = "idle"
    /\ Raise("Exception")
    /\ A' = NoMatrix /\ B' = NoMatrix /\ C' = NoMatrix /\ D' = NoMatrix
    /\ UNCHANGED <<inputs, task, irfStore, irk_bss, rad_conv, it, r2t, args, hist>>

\* Line 172: raise Exception(...), whatever the arguments.
calc_ss_excitation ==
    /\ pc = "idle"
    /\ Raise("Exception")
    /\ UNCHANGED <<inputs, task, irfStore, ssStore, args, hist>>

\* ----------------------------------------------------- calc_irf_radiation
\* Lines 178-210: the target grid and the interpolated radiation damping.
\* (The quadrature of lines 215-226 is a function of rd_interp and the grids.)
calc_irf_radiation ==
    /\ pc = "idle"
    /\ \E n_w \in 2..MaxNw :
        /\ rd_irf_w' = Linspace(ArrayMin(w), ArrayMax(w), n_w)
        /\ rd_interp' = RdInterp(w, rd_all, rd_irf_w')
    /\ pc' = "idle"
    /\ result' = "returned"
    /\ UNCHANGED <<inputs, task, ex_irf_w, ex_re_interp, ex_im_interp, ssStore, args,
                   locals, hist>>

\* ---------------------------------------------------- calc_irf_excitation
\* Lines 115-153: the target grid and the interpolated excitation force.
\* (The quadrature of lines 158-167 is a function of the interpolated arrays.)
calc_irf_excitation ==
    /\ pc = "idle"
    /\ \E n_w \in 2..MaxNw :
        /\ ex_irf_w' = Linspace(ArrayMin(w), ArrayMax(w), n_w)
        /\ IF Flip(w) /\ rd_im = NoMatrix
           THEN \* line 142: self.rd has no attribute im
                /\ result' = "AttributeError"
                /\ UNCHANGED <<ex_re_interp, ex_im_interp>>
           ELSE /\ ex_re_interp' = ExReInterp(w, ex_re, ex_irf_w')
                /\ ex_im_interp' = ExImInterp(w, ex_im, rd_im, ex_irf_w')
                /\ result' = "returned"
    /\ pc' = "idle"
    /\ UNCHANGED <<inputs, task, rd_irf_w, rd_interp, ssStore, args, locals, hist>>

\* The strictly ascending or strictly descending grids of n frequencies.
Grids(n) ==
    {g \in [0..(n - 1) -> 0..MaxW] :
        \/ \A k \in 0..(n - 2) : g[k] < g[k + 1]
        \/ \A k \in 0..(n - 2) : g[k] > g[k + 1]}

InitIrf ==
    /\ shape = <<1, 1>>
    /\ numFreq = 2
    /\ K = [p \in Pairs(shape) |-> [k \in 0..(numFreq - 1) |-> 0]]
    /\ \E n \in 2..MaxGridLen :
        /\ w \in Grids(n)
        /\ rd_all \in [Pairs(shape) -> [0..(n - 1) -> CoefValues]]
        /\ ex_re \in [Pairs(shape) -> [0..(n - 1) -> CoefValues]]
        /\ ex_im \in [Pairs(shape) -> [0..(n - 1) -> CoefValues]]
        /\ rd_im \in {NoMatrix} \cup [Pairs(shape) -> [0..(n - 1) -> CoefValues]]
    /\ NoIrfResults
    /\ A = NoMatrix /\ B = NoMatrix /\ C = NoMatrix /\ D = NoMatrix
    /\ irk_bss = NoMatrix /\ rad_conv = NoMatrix /\ it = NoMatrix /\ r2t = NoMatrix
    /\ pc = "idle"
    /\ result = "none"
    /\ max_order = 0 /\ r2_thresh = 0
    /\ NoLocals
    /\ task = NoMatrix
    /\ tried = NoMatrix
    /\ done = {}

NextIrf ==
    \/ calc_irf_radiation
    \/ calc_irf_excitation
    \/ calc_ss_excitation

SpecIrf == InitIrf /\ [][NextIrf]_vars

\* ------------------------------------- calc_ss_radiation, pairs interleaved
\* The body of the (i,j) loops (lines 273-338) run as one task per pair, the
\* tasks interleaved step by step.  The names the body assigns (r2bt, ss, ac,
\* bc, cc, dc, status, R2T) are the task's own; k_ss_est (allocated once at
\* line 256 and written in place at line 311) and count (line 268) are the
\* objects of the enclosing call, which every task uses.
NewTask ==
    [pc |-> "for", ss |-> Unbound, r2bt |-> 0, status |-> Unbound,
     R2T |-> Unbound, ac |-> NoMatrix, bc |-> NoMatrix, cc |-> NoMatrix,
     dc |-> Unbound]

\* Lines 253-268, then one task per pair.
par_begin ==
    /\ pc = "idle"
    /\ numFreq >= 3
    /\ \E mo \in 1..MaxOrder, th \in Thresholds :
        /\ max_order' = mo
        /\ r2_thresh' = th
        /\ A' = [p \in Pairs(shape) |-> Zeros(mo, mo)]
        /\ B' = [p \in Pairs(shape) |-> Zeros(mo, 1)]
        /\ C' = [p \in Pairs(shape) |-> Zeros(1, mo)]
    /\ tried' = [p \in Pairs(shape) |-> << >>]
    /\ done' = {}
    /\ k_ss_est' = [k \in 0..(numFreq - 1) |-> 0]
    /\ D' = [p \in Pairs(shape) |-> 0]
    /\ irk_bss' = [p \in Pairs(shape) |-> [k \in 0..(numFreq - 1) |-> 0]]
    /\ rad_conv' = [p \in Pairs(shape) |-> 0]
    /\ it' = [p \in Pairs(shape) |-> 0]
    /\ r2t' = [p \in Pairs(shape) |-> 0]
    /\ count' = 0
    /\ task' = [p \in Pairs(shape) |-> NewTask]
    /\ pc' = "par"
    /\ result' = "running"
    /\ UNCHANGED <<inputs, irfStore, i, j, ss, r2bt, status, R2T, ac, bc, cc, dc>>

\* Lines 273-277 and 337-338 for pair p.
task_for_body ==
    /\ pc = "par"
    /\ \E p \in DOMAIN task :
        /\ task[p].pc = "for"
        /\ LET r == Norm2Centered(K[p], numFreq) IN
           IF NonDegenerate(r)
           THEN /\ task' = [task EXCEPT ![p].pc = "while", ![p].r2bt = r,
                                        ![p].ss = InitialOrder]
                /\ UNCHANGED <<count, done>>
           ELSE /\ task' = [task EXCEPT ![p].pc = "done", ![p].r2bt = r,
                                        ![p].ss = InitialOrder]
                /\ count' = count + 1
                /\ done' = done \cup {p}
    /\ UNCHANGED <<inputs, irfStore, ssStore, pc, result, args, i, j, ss, r2bt,
                   status, R2T, ac, bc, cc, dc, k_ss_est, tried>>

\* Lines 281-326 for pair p: one pass of the while-loop body.
task_while_body ==
    /\ pc = "par"
    /\ \E p \in DOMAIN task :
        /\ task[p].pc = "while"
        /\ \/ /\ task[p].ss > numFreq - 1
              /\ Raise("ValueError")
              /\ task' = NoMatrix
              /\ UNCHANGED tried
           \/ /\ task[p].ss <= numFreq - 1
              /\ Raise("LinAlgError")
              /\ task' = NoMatrix
              /\ UNCHANGED tried
           \/ /\ task[p].ss <= numFreq - 1
              /\ \E r \in R2Values :
                  LET o == task[p].ss
                      v == Val(p[1], p[2], o)
                      t == [task[p] EXCEPT !.ac = Filled(o, o, v),
                                           !.bc = Filled(o, 1, v),
                                           !.cc = Filled(1, o, v),
                                           !.dc = v,
                                           !.R2T = r]
                  IN
                  /\ k_ss_est' = [k \in 0..(numFreq - 1) |-> v]
                  /\ tried' = [tried EXCEPT ![p] = Append(@, <<o, r>>)]
                  /\ task' = [task EXCEPT ![p] =
                        IF MeetsThreshold(r, r2_thresh)
                        THEN [t EXCEPT !.status = 1, !.pc = "store"]
                        ELSE IF AtOrderLimit(o, max_order)
                        THEN [t EXCEPT !.status = 2, !.pc = "store"]
                        ELSE [t EXCEPT !.ss = NextOrder(o)]]
              /\ UNCHANGED <<pc, result, i, j, ss, r2bt, status, R2T, ac, bc, cc,
                             dc, count>>
    /\ UNCHANGED <<inputs, irfStore, ssStore, args, done>>

\* Lines 328-338 for pair p.
task_store_results ==
    /\ pc = "par"
    /\ \E p \in DOMAIN task :
        /\ task[p].pc = "store"
        /\ IF ~Fits(A[p], task[p].ac)
           THEN /\ Raise("ValueError")
                /\ task' = NoMatrix
                /\ UNCHANGED <<ssStore, done>>
           ELSE /\ A' = [A EXCEPT ![p] = WriteBlock(@, task[p].ac)]
                /\ B' = [B EXCEPT ![p] = WriteBlock(@, task[p].bc)]
                /\ C' = [C EXCEPT ![p] = WriteBlock(@, task[p].cc)]
                /\ D' = [D EXCEPT ![p] = task[p].dc]
                /\ irk_bss' = [irk_bss EXCEPT ![p] = k_ss_est]
                /\ rad_conv' = [rad_conv EXCEPT ![p] = task[p].status]
                /\ r2t' = [r2t EXCEPT ![p] = task[p].R2T]
                /\ it' = [it EXCEPT ![p] = task[p].ss]
                /\ count' = count + 1
                /\ task' = [task EXCEPT ![p].pc = "done"]
                /\ done' = done \cup {p}
                /\ UNCHANGED <<pc, result, i, j, ss, r2bt, status, R2T, ac, bc,
                               cc, dc, k_ss_est>>
    /\ UNCHANGED <<inputs, irfStore, args, tried>>

\* Line 340: every task has ended, the call returns.
par_return ==
    /\ pc = "par"
    /\ \A p \in DOMAIN task : task[p].pc = "done"
    /\ pc' = "idle"
    /\ result' = "returned"
    /\ DropLocals
    /\ task' = NoMatrix
    /\ UNCHANGED <<inputs, irfStore, ssStore, args, hist>>

NextPar ==
    \/ par_begin
    \/ task_for_body
    \/ task_while_body
    \/ task_store_results
    \/ par_return

SpecPar == Init /\ [][NextPar]_vars

Next ==
    \/ calc_ss_radiation_begin
    \/ for_body
    \/ while_body
    \/ store_results
    \/ calc_ss_radiation_return
    \/ calc_ss_excitation

Spec == Init /\ [][Next]_vars

\* ================================================================= claims
\* The pairs whose loop body has run to its end since the result arrays were
\* last zeroed are in `done`; `tried` lists what the search of a pair evaluated.
Degenerate(p) == Norm2Centered(K[p], numFreq) = 0
LastTried(p)  == tried[p][Len(tried[p])]
Returned      == pc = "idle" /\ result = "returned"
Block(n)      == (0..(n - 1)) \X (0..(n - 1))

\* C1: for every pair on which the order search runs, and every positive
\* max_order and every threshold, the order at which the search stops, and
\* the order recorded in rd.ss.it, is >= 2 and <= max_order.
C1_OrderWithinBounds ==
    /\ pc = "store" => (ss >= 2 /\ ss <= max_order)
    /\ \A p \in done : ~Degenerate(p) => (it[p] >= 2 /\ it[p] <= max_order)

\* (C1, for max_order >= 2: holds.)
C1_FromOrderTwo == max_order >= 2 => C1_OrderWithinBounds

\* C2: the candidate orders of a pair are 2, 3, 4, ... in that order; every
\* candidate before the last one evaluated failed the threshold; and when the
\* search has stopped, the order kept is the last candidate, which either
\* meets the threshold (so it is the smallest order that does) or is
\* max_order with no order of 2..max_order meeting it.
C2_SmallestOrderKept ==
    \A p \in DOMAIN tried :
        /\ \A k \in 1..Len(tried[p]) : tried[p][k][1] = k + 1
        /\ \A k \in 1..(Len(tried[p]) - 1) : tried[p][k][2] < r2_thresh
        /\ (pc = "store" /\ p = <<i, j>>) =>
              /\ tried[p] # << >>
              /\ ss = LastTried(p)[1]
              /\ LastTried(p)[2] < r2_thresh => ss = max_order
        /\ (p \in done /\ ~Degenerate(p)) =>
              /\ tried[p] # << >>
              /\ it[p] = LastTried(p)[1]
              /\ LastTried(p)[2] < r2_thresh => it[p] = max_order

\* C2 witness: a search that went through orders 2 and 3 and kept 3 because
\* 3 was the first order to meet the threshold.
C2_Witness ==
    \E p \in done :
        /\ Len(tried[p]) = 2
        /\ it[p] = 3
        /\ r2t[p] >= r2_thresh

C4_DegenerateState ==
    \A p \in DOMAIN tried : Degenerate(p) =>
        /\ tried[p] = << >>
        /\ p \in DOMAIN rad_conv =>
              /\ rad_conv[p] = 0
              /\ D[p] = 0
              /\ \A x \in DOMAIN A[p] : A[p][x] = 0
              /\ \A x \in DOMAIN B[p] : B[p][x] = 0
              /\ \A x \in DOMAIN C[p] : C[p][x] = 0
              /\ \A k \in DOMAIN irk_bss[p] : irk_bss[p][k] = 0

\* (C4, step part) the loop body of a degenerate pair ends without raising
\* and without writing to the result arrays.
C4_DegenerateStep ==
    (pc = "for" /\ i < Shape0 /\ Degenerate(<<i, j>>)) =>
        /\ pc' = "for"
        /\ done' = done \cup {<<i, j>>}
        /\ UNCHANGED ssStore

\* C4: a pair whose kernel has zero norm after mean subtraction is never
\* searched, its loop body never raises, and its status, A, B, C, D and
\* estimated impulse response are zero from the zeroing of the arrays on,
\* whatever pairs were processed before it.
C4_DegenerateZero == [] C4_DegenerateState /\ [][C4_DegenerateStep]_vars

\* C4 witness: the call has returned, and a degenerate pair was processed
\* after a pair that was reduced and stored.
C4_Witness ==
    /\ Returned
    /\ \E p \in done, q \in done :
        /\ Degenerate(p)
        /\ it[q] >= 2
        /\ (q[1] < p[1] \/ (q[1] = p[1] /\ q[2] < p[2]))

\* C5: the search of a pair evaluates at most max_order - 1 candidate orders,
\* and a search in which no candidate met the threshold stops with status
\* order_limit_reached: the call is never left by an exception in the search.
C5_SearchBounded ==
    /\ \A p \in DOMAIN tried : Len(tried[p]) <= max_order - 1
    /\ pc = "store" /\ R2T < r2_thresh => status = 2
    /\ ~(pc = "idle" /\ result = "ValueError")

\* (C5, for max_order >= 2: the number of candidates is bounded, and a search
\* that does not converge ends with status 2 when max_order < numFreq.)
C5_FromOrderTwo ==
    max_order >= 2 =>
        /\ \A p \in DOMAIN tried : Len(tried[p]) <= max_order - 1
        /\ pc = "store" /\ R2T < r2_thresh => status = 2
        /\ max_order < numFreq => ~(pc = "idle" /\ result = "ValueError")

\* The arrays to feed with the ascending grid Flipud(w).
AscendingEquivalent(a) == [p \in DOMAIN a |-> Flipud(a[p])]

\* (C6, radiation damping: holds.)
C6_RadiationSame ==
    (Flip(w) /\ rd_irf_w # NoMatrix) =>
        rd_interp = RdInterp(Flipud(w), AscendingEquivalent(rd_all), rd_irf_w)

\* (C6, excitation real part: holds.)
C6_ExcitationReSame ==
    (Flip(w) /\ ex_re_interp # NoMatrix) =>
        ex_re_interp = ExReInterp(Flipud(w), AscendingEquivalent(ex_re), ex_irf_w)

\* C6: on a descending grid, calc_irf_radiation and calc_irf_excitation give
\* the interpolated coefficients that the ascending grid with the reversed
\* arrays gives, each slice taken from the array the ascending case uses.
C6_DescendingSameAsAscending ==
    /\ (Flip(w) /\ rd_irf_w # NoMatrix) =>
          rd_interp = RdInterp(Flipud(w), AscendingEquivalent(rd_all), rd_irf_w)
    /\ (Flip(w) /\ ex_irf_w # NoMatrix) =>
          /\ ex_re_interp =
                ExReInterp(Flipud(w), AscendingEquivalent(ex_re), ex_irf_w)
          /\ ex_im_interp =
                ExImInterp(Flipud(w), AscendingEquivalent(ex_im),
                           AscendingEquivalent(rd_im), ex_irf_w)

\* C7: a numerical failure while reducing one pair does not abort the batch.
C7_FailureDoesNotAbort == ~(pc = "idle" /\ result = "LinAlgError")

\* C8: a degenerate or non-converging pair does not stop the batch (the call
\* is not left by an exception while a pair none of whose candidates met the
\* threshold is searched), and after the call returns every pair carries its
\* own status and results.
C8_PairsIndependent ==
    /\ (pc = "idle" /\ result = "ValueError") =>
          \A p \in DOMAIN tried \ done :
              tried[p] # << >> => LastTried(p)[2] >= r2_thresh
    /\ Returned =>
          \A p \in Pairs(shape) :
              /\ p \in done
              /\ rad_conv[p] = (IF Degenerate(p) THEN 0
                                ELSE IF r2t[p] >= r2_thresh THEN 1 ELSE 2)
              /\ ~Degenerate(p) =>
                    /\ D[p] = Val(p[1], p[2], it[p])
                    /\ \A k \in DOMAIN irk_bss[p] :
                          irk_bss[p][k] = Val(p[1], p[2], it[p])
                    /\ \A x \in Block(it[p]) : A[p][x] = Val(p[1], p[2], it[p])

\* C9: calc_ss_excitation always ends with an error and leaves the
\* coefficient store as it was.
C9_ExcitationFails ==
    /\ [](pc = "idle" => ENABLED calc_ss_excitation)
    /\ [][calc_ss_excitation =>
            /\ pc' = "idle"
            /\ result' = "Exception"
            /\ UNCHANGED <<inputs, task, irfStore, ssStore>>]_vars

\* C9 witness: the error was raised on a store that holds state-space results.
C9_Witness ==
    /\ result = "Exception"
    /\ \E p \in done : it[p] >= 2

\* C10: after calc_ss_radiation returns, A, B and C of every pair have the
\* size given by max_order, the leading it[i,j] block holds what the final
\* candidate order produced (the iteration that produced the stored D, R2 and
\* estimated impulse response), and every entry outside that block is zero.
C10_LeadingBlock ==
    Returned =>
        \A p \in Pairs(shape) :
            LET n == it[p]
                v == IF n = 0 THEN 0 ELSE Val(p[1], p[2], n) IN
            /\ DOMAIN A[p] = Block(max_order)
            /\ DOMAIN B[p] = (0..(max_order - 1)) \X {0}
            /\ DOMAIN C[p] = {0} \X (0..(max_order - 1))
            /\ n = (IF tried[p] = << >> THEN 0 ELSE LastTried(p)[1])
            /\ r2t[p] = (IF tried[p] = << >> THEN 0 ELSE LastTried(p)[2])
            /\ D[p] = v
            /\ \A k \in DOMAIN irk_bss[p] : irk_bss[p][k] = v
            /\ \A x \in DOMAIN A[p] :
                  A[p][x] = (IF x[1] < n /\ x[2] < n THEN v ELSE 0)
            /\ \A x \in DOMAIN B[p] : B[p][x] = (IF x[1] < n THEN v ELSE 0)
            /\ \A x \in DOMAIN C[p] : C[p][x] = (IF x[2] < n THEN v ELSE 0)

\* C10 witness: the call returned with a pair whose order is below max_order,
\* so that its containers have entries outside the leading block.
C10_Witness ==
    /\ Returned
    /\ \E p \in Pairs(shape) : it[p] >= 2 /\ it[p] < max_order

\* (C11, one pair after another: when the search of a pair starts, the
\* working buffer k_ss_est still holds what the pair before it wrote.)
C11_BufferFreshPerPair ==
    (pc = "while" /\ tried[<<i, j>>] = << >>) =>
        \A k \in DOMAIN k_ss_est : k_ss_est[k] = 0

\* C11: no working buffer is shared between the computations of two pairs,
\* so when the pair computations are interleaved and the call returns, every
\* value in the output slots of a pair was computed from that pair, at the
\* order recorded for it, as when the pairs run one after another.
C11_InterleavingSameStore ==
    Returned =>
        \A p \in Pairs(shape) :
            LET v == IF it[p] = 0 THEN 0 ELSE Val(p[1], p[2], it[p]) IN
            /\ D[p] = v
            /\ \A x \in DOMAIN A[p] : A[p][x] \in {0, v}
            /\ \A x \in DOMAIN B[p] : B[p][x] \in {0, v}
            /\ \A x \in DOMAIN C[p] : C[p][x] \in {0, v}
            /\ \A k \in DOMAIN irk_bss[p] : irk_bss[p][k] = v

====
